---- MODULE Spec2Model ----
(***************************************************************************)
(* The credential and token lifecycle of devlinks-app: the authController  *)
(* handlers signup, verifyEmail, login, forgotPassword, resetPassword and  *)
(* logout and the protected gate, run as concurrent requests against one   *)
(* user collection.                                                        *)
(*                                                                         *)
(* Every `await` of a handler that reaches the database or the mail        *)
(* transport is one atomic step; a handler's position between two awaits   *)
(* is the pc of its request slot, and the Mongoose document it holds in    *)
(* memory is the slot's doc.                                               *)
(***************************************************************************)
EXTENDS Naturals, Sequences, FiniteSets

\* ---------------------------------------------------------------- bounds
MaxReqs == 3        \* requests started in one behaviour
MaxInflight == 2    \* requests in flight at the same time
MaxTime == 3        \* last value of the clock

\* ------------------------------------------------------------- constants
\* passwordResetExpires = Date.now() + 10 minutes; the clock counts units of
\* five minutes.
ResetTTL == 2

\* The lifetime createSendToken gives a session token, in clock units.
JwtTTL == 2

Emails == {"a@x.com", "b@x.com"}
Passwords == {"Pw123456", "NewPw1"}
Blank == ""

\* `undefined`: a path that is not set on a document.
Absent == <<>>

VARIABLES
    users,      \* the user collection, in insertion order; _id is the index
    reqs,       \* the requests in flight, one per slot
    resp,       \* the response of the request that completed last
    now,        \* Date.now()
    nextTok,    \* the next value crypto.randomBytes yields (never repeats)
    started,    \* number of requests started so far
    outbox,     \* the mails the transport accepted
    usedVerify, \* history: raw tokens a verifyEmail has succeeded with
    usedReset,  \* history: raw tokens a resetPassword has succeeded with
    failedForgot, \* history: raw tokens whose forgotPassword ended in 500
    issued,     \* history: <<_id, raw token>> of every reset token persisted
    latest,     \* history, per _id: the reset token and expiry persisted last
    sessions    \* the session tokens createSendToken has signed so far

vars == <<users, reqs, resp, now, nextTok, started, outbox,
          usedVerify, usedReset, failedForgot, issued, latest, sessions>>

Slots == 1..MaxInflight

\* ------------------------------------------------------ hashing (utility)
\* crypto.createHash('sha256').update(token).digest('hex'): deterministic and
\* injective on the tokens of the model; the digest is not the token.
Sha256(t) == <<"sha256", t>>

\* The pre-save hook's one-way hash of the password.
HashPassword(p) == <<"bcrypt", p>>

\* user.matchPassword(candidate, user.password)
MatchPassword(p, h) == h = HashPassword(p)

\* ------------------------------------------------------------ documents
NullDoc ==
    [id |-> 0, email |-> Blank, password |-> Absent, isVerified |-> FALSE,
     emailVerificationToken |-> Absent, passwordResetToken |-> Absent,
     passwordResetExpires |-> Absent]

Min(S) == CHOOSE i \in S : \A j \in S : i <= j

\* Model.findOne(filter): the first document, in natural order, that matches.
FindByEmail(us, email) ==
    LET S == {i \in 1..Len(us) : us[i].email = email}
    IN  IF S = {} THEN 0 ELSE Min(S)

FindByVerificationToken(us, t) ==
    LET S == {i \in 1..Len(us) : us[i].emailVerificationToken = Sha256(t)}
    IN  IF S = {} THEN 0 ELSE Min(S)

\* Mutation: the lookup ignores passwordResetExpires.
FindByResetTokenNoExpiry(us, t, time) ==
    LET S == {i \in 1..Len(us) : us[i].passwordResetToken = Sha256(t)}
    IN  IF S = {} THEN 0 ELSE Min(S)

\* findOne({passwordResetToken: hashedToken, passwordResetExpires: {$gt: Date.now()}})
FindByResetToken(us, t, time) ==
    LET S == {i \in 1..Len(us) :
                /\ us[i].passwordResetToken = Sha256(t)
                /\ us[i].passwordResetExpires # Absent
                /\ us[i].passwordResetExpires[1] > time}
    IN  IF S = {} THEN 0 ELSE Min(S)

\* Mutation: save() writes the whole in-memory document back.
SaveWholeDoc(us, doc, paths) ==
    [us EXCEPT ![doc.id] = doc]

\* doc.save() of a loaded document: updateOne({_id}, {$set / $unset}) of the
\* modified paths only; the other paths keep what the collection holds.
SaveDoc(us, doc, paths) ==
    [us EXCEPT ![doc.id] =
        [f \in DOMAIN @ |-> IF f \in paths THEN doc[f] ELSE @[f]]]

\* Mutation: the collection has no unique index on email.
InsertAllowedNoIndex(us, email) == TRUE

\* The unique index on email: an insert of a second document with the same
\* email is refused with a duplicate-key error.
InsertAllowed(us, email) == FindByEmail(us, email) = 0

\* new User({...}) with createEmailVerificationToken() applied.
NewUser(us, email, password, t) ==
    [id |-> Len(us) + 1, email |-> email, password |-> HashPassword(password),
     isVerified |-> FALSE, emailVerificationToken |-> Sha256(t),
     passwordResetToken |-> Absent, passwordResetExpires |-> Absent]

\* Schema validation run by save(): confirmPassword must equal password.
Valid(password, confirm) == password = confirm

\* ------------------------------------------------------------- requests
\* A request slot. pre and wrote are history: what held of the store when the
\* handler did its lookup, and whether the handler has saved anything.
Idle ==
    [kind |-> "idle", pc |-> "idle", email |-> Blank, password |-> Blank,
     confirm |-> Blank, token |-> 0, doc |-> NullDoc, pre |-> {},
     wrote |-> FALSE]

Request(kind, pc, email, password, confirm, token, doc, pre) ==
    [kind |-> kind, pc |-> pc, email |-> email, password |-> password,
     confirm |-> confirm, token |-> token, doc |-> doc, pre |-> pre,
     wrote |-> FALSE]

NoResp ==
    [kind |-> "none", status |-> 0, msg |-> "", email |-> Blank,
     token |-> 0, session |-> 0, pre |-> {}, wrote |-> FALSE]

\* res.status(code).json(...) or next(new AppError(msg, code)) for request r;
\* session is the _id createSendToken signs into the session token, or 0.
Response(r, status, msg, session) ==
    [kind |-> r.kind, status |-> status, msg |-> msg, email |-> r.email,
     token |-> r.token, session |-> session, pre |-> r.pre, wrote |-> r.wrote]

\* The lowest free slot takes the next request.
Free(s) ==
    /\ reqs[s] = Idle
    /\ \A q \in Slots : q < s => reqs[q] # Idle
    /\ started < MaxReqs
    /\ started' = started + 1

\* Raw tokens a client may present to verifyEmail: every token generated so
\* far, and 0, a token that was never generated.
Presentable == 0..(nextTok - 1)

\* Raw tokens a client may present to resetPassword: every reset token
\* generated so far (mailed or not), and 0, a token that is no reset token.
ResetPresentable == {0} \cup {p[2] : p \in issued}

\* ------------------------------------------------------------- messages
MsgUserExists == "User already exists with this email address."
MsgVerificationSent == "Verification email sent. Please verify your email address."
MsgBadVerifyToken == "Invalid or expired verification token."
MsgVerified == "Email verified successfully."
MsgProvide == "Please provide email and password."
MsgBadLogin == "Invalid email or password."
MsgNotVerified == "Your email is not verified. Please verify your email address."
MsgNoSuchUser == "We can't find a user with that email address."
MsgResetSent == "Password reset email sent. Please check your email."
MsgResetSendFailed == "There was an error sending the password reset email. Please try again later."
MsgBadResetToken == "Password reset token is invalid or has expired."
MsgLoggedOut == "Successfully logged out."
\* Errors that reach the global error handler without a status of their own.
MsgValidation == "ValidationError"
MsgDuplicateKey == "StoreError"
MsgDispatch == "DispatchError"
MsgSession == "success"

\* The request in slot s ends with response r.
Complete(s, r) ==
    /\ reqs' = [reqs EXCEPT ![s] = Idle]
    /\ resp' = r

\* A request that ends in the step that starts it.
Immediate(r) ==
    /\ reqs' = reqs
    /\ resp' = r

History == <<usedVerify, usedReset, failedForgot, issued, latest>>

\* ---------------------------------------------------------------- signup
\* Mutation: signup without the existing-user check.
SignupFindNoCheck(s, email, password, confirm) ==
    /\ Free(s)
    /\ LET pre == IF FindByEmail(users, email) # 0 THEN {"exists"} ELSE {}
           r == Request("signup", "save", email, password, confirm, 0, NullDoc, pre)
       IN  /\ reqs' = [reqs EXCEPT ![s] = r]
           /\ resp' = resp
    /\ UNCHANGED <<users, now, nextTok, outbox, History, sessions>>

\* signup, up to the first await: User.findOne({email}) and the conflict error.
SignupFind(s, email, password, confirm) ==
    /\ Free(s)
    /\ LET existing == FindByEmail(users, email)
           pre == IF existing # 0 THEN {"exists"} ELSE {}
           r == Request("signup", "save", email, password, confirm, 0, NullDoc, pre)
       IN  IF existing # 0
           THEN Immediate(Response(r, 400, MsgUserExists, 0))
           ELSE /\ reqs' = [reqs EXCEPT ![s] = r]
                /\ resp' = resp
    /\ UNCHANGED <<users, now, nextTok, outbox, History, sessions>>

\* new User(...), createEmailVerificationToken() and `await newUser.save()`.
SignupSave(s) ==
    /\ reqs[s].kind = "signup"
    /\ reqs[s].pc = "save"
    /\ nextTok' = nextTok + 1
    /\ LET r == [reqs[s] EXCEPT !.token = nextTok]
           doc == NewUser(users, r.email, r.password, nextTok)
       IN  IF ~Valid(r.password, r.confirm)
           THEN /\ Complete(s, Response(r, 400, MsgValidation, 0))
                /\ UNCHANGED <<users, latest>>
           ELSE IF ~InsertAllowed(users, r.email)
           THEN /\ Complete(s, Response(r, 500, MsgDuplicateKey, 0))
                /\ UNCHANGED <<users, latest>>
           ELSE /\ users' = Append(users, doc)
                /\ latest' = Append(latest, [token |-> 0, expires |-> Absent])
                /\ reqs' = [reqs EXCEPT ![s] =
                              [r EXCEPT !.pc = "send", !.doc = doc, !.wrote = TRUE]]
                /\ resp' = resp
    /\ UNCHANGED <<now, started, outbox, usedVerify, usedReset, failedForgot, issued, sessions>>

\* `await sendEmail(emailOptions)` and the 201; a rejected send is not caught
\* and reaches the global error handler.
SignupSend(s, ok) ==
    /\ reqs[s].kind = "signup"
    /\ reqs[s].pc = "send"
    /\ IF ok
       THEN /\ outbox' = outbox \cup {<<"verify", reqs[s].email, reqs[s].token>>}
            /\ Complete(s, Response(reqs[s], 201, MsgVerificationSent, 0))
       ELSE /\ outbox' = outbox
            /\ Complete(s, Response(reqs[s], 500, MsgDispatch, 0))
    /\ UNCHANGED <<users, now, nextTok, started, History, sessions>>

\* ----------------------------------------------------------- verifyEmail
\* verifyEmail, up to the first await: the lookup by the token's digest.
VerifyFind(s, t) ==
    /\ Free(s)
    /\ LET id == FindByVerificationToken(users, t)
           pre == IF t \in usedVerify THEN {"used"} ELSE {}
           r == Request("verify", "save", Blank, Blank, Blank, t,
                        IF id = 0 THEN NullDoc ELSE users[id], pre)
       IN  IF id = 0
           THEN Immediate(Response(r, 400, MsgBadVerifyToken, 0))
           ELSE /\ reqs' = [reqs EXCEPT ![s] = r]
                /\ resp' = resp
    /\ UNCHANGED <<users, now, nextTok, outbox, History, sessions>>

\* Mutation: the save writes every path of the document verifyEmail loaded.
VerifySaveAllPaths(s) ==
    /\ reqs[s].kind = "verify"
    /\ reqs[s].pc = "save"
    /\ LET doc == [reqs[s].doc EXCEPT !.isVerified = TRUE]
           r == [reqs[s] EXCEPT !.doc = doc, !.wrote = TRUE,
                                !.pre = @ \cup (IF users[doc.id] # reqs[s].doc
                                                THEN {"raced"} ELSE {})]
       IN  /\ users' = SaveDoc(users, doc, DOMAIN doc)
           /\ Complete(s, Response(r, 200, MsgVerified, 0))
    /\ usedVerify' = usedVerify \cup {reqs[s].token}
    /\ UNCHANGED <<now, nextTok, started, outbox, usedReset, failedForgot, issued, latest, sessions>>

\* user.isVerified = true; await user.save({validateBeforeSave: false}).
\* "raced" is history: the stored record is no longer the one that was loaded.
VerifySave(s) ==
    /\ reqs[s].kind = "verify"
    /\ reqs[s].pc = "save"
    /\ LET doc == [reqs[s].doc EXCEPT !.isVerified = TRUE]
           r == [reqs[s] EXCEPT !.doc = doc, !.wrote = TRUE,
                                !.pre = @ \cup (IF users[doc.id] # reqs[s].doc
                                                THEN {"raced"} ELSE {})]
       IN  /\ users' = SaveDoc(users, doc, {"isVerified"})
           /\ Complete(s, Response(r, 200, MsgVerified, 0))
    /\ usedVerify' = usedVerify \cup {reqs[s].token}
    /\ UNCHANGED <<now, nextTok, started, outbox, usedReset, failedForgot, issued, latest, sessions>>

\* ----------------------------------------------------------------- login
\* createSendToken(user, 200, res): a token signed with the server's secret
\* that names the user's _id and expires JwtTTL after it was signed.
SignToken(id, time) == [sub |-> id, exp |-> time + JwtTTL]

\* What held of the store when login looked the email up.
LoginPre(email, password) ==
    LET id == FindByEmail(users, email)
    IN  IF email = Blank \/ password = Blank THEN {"blank"}
        ELSE IF id = 0 THEN {"nouser"}
        ELSE (IF MatchPassword(password, users[id].password) THEN {} ELSE {"wrongpw"})
             \cup (IF users[id].isVerified THEN {} ELSE {"unverified"})

\* Mutation: login tests isVerified before the password.
LoginVerifiedFirst(s, email, password) ==
    /\ Free(s)
    /\ LET id == FindByEmail(users, email)
           r == Request("login", "done", email, password, Blank, 0, NullDoc,
                        LoginPre(email, password))
       IN  IF email = Blank \/ password = Blank
           THEN Immediate(Response(r, 400, MsgProvide, 0))
           ELSE IF id = 0
           THEN Immediate(Response(r, 401, MsgBadLogin, 0))
           ELSE IF ~users[id].isVerified
           THEN Immediate(Response(r, 401, MsgNotVerified, 0))
           ELSE IF ~MatchPassword(password, users[id].password)
           THEN Immediate(Response(r, 401, MsgBadLogin, 0))
           ELSE Immediate(Response(r, 200, MsgSession, id))
    /\ UNCHANGED <<users, now, nextTok, outbox, History>>
    /\ sessions' = IF resp'.session # 0
                   THEN sessions \cup {SignToken(resp'.session, now)}
                   ELSE sessions

\* Mutation: login does not test isVerified.
LoginNoVerifiedCheck(s, email, password) ==
    /\ Free(s)
    /\ LET id == FindByEmail(users, email)
           r == Request("login", "done", email, password, Blank, 0, NullDoc,
                        LoginPre(email, password))
       IN  IF email = Blank \/ password = Blank
           THEN Immediate(Response(r, 400, MsgProvide, 0))
           ELSE IF id = 0 \/ ~MatchPassword(password, users[id].password)
           THEN Immediate(Response(r, 401, MsgBadLogin, 0))
           ELSE Immediate(Response(r, 200, MsgSession, id))
    /\ UNCHANGED <<users, now, nextTok, outbox, History>>
    /\ sessions' = IF resp'.session # 0
                   THEN sessions \cup {SignToken(resp'.session, now)}
                   ELSE sessions

\* login: one lookup, then checks on the document it returned.
Login(s, email, password) ==
    /\ Free(s)
    /\ LET id == FindByEmail(users, email)
           r == Request("login", "done", email, password, Blank, 0, NullDoc,
                        LoginPre(email, password))
       IN  IF email = Blank \/ password = Blank
           THEN Immediate(Response(r, 400, MsgProvide, 0))
           ELSE IF id = 0 \/ ~MatchPassword(password, users[id].password)
           THEN Immediate(Response(r, 401, MsgBadLogin, 0))
           ELSE IF ~users[id].isVerified
           THEN Immediate(Response(r, 401, MsgNotVerified, 0))
           ELSE Immediate(Response(r, 200, MsgSession, id))
    /\ UNCHANGED <<users, now, nextTok, outbox, History>>
    /\ sessions' = IF resp'.session # 0
                   THEN sessions \cup {SignToken(resp'.session, now)}
                   ELSE sessions

\* ---------------------------------------------------------------- logout
\* Mutation: logout revokes the session tokens signed so far.
LogoutRevokes(s) ==
    /\ Free(s)
    /\ Immediate(Response(Request("logout", "done", Blank, Blank, Blank, 0, NullDoc, {}),
                          200, MsgLoggedOut, 0))
    /\ sessions' = {}
    /\ UNCHANGED <<users, now, nextTok, outbox, History>>

\* logout: req.user = null, the jwt cookie cleared, and the 200.
Logout(s) ==
    /\ Free(s)
    /\ Immediate(Response(Request("logout", "done", Blank, Blank, Blank, 0, NullDoc, {}),
                          200, MsgLoggedOut, 0))
    /\ UNCHANGED <<users, now, nextTok, outbox, History, sessions>>

\* ------------------------------------------------------------- protected
\* What a request carries in its Authorization header: nothing that starts
\* with 'Bearer', a bearer string of fewer than 20 characters, or a JWT.
\* Only the server signs: a JWT is signed exactly when createSendToken made it.
NoBearer == [form |-> "none", signed |-> FALSE, sub |-> 0, exp |-> 0]
ShortBearer == [form |-> "short", signed |-> FALSE, sub |-> 0, exp |-> 0]
Jwt(tok, signed) == [form |-> "jwt", signed |-> signed, sub |-> tok.sub, exp |-> tok.exp]

\* A JWT that names user 1 and never expires within the clock's range, with a
\* signature the secret does not verify.
ForgedBearer == Jwt([sub |-> 1, exp |-> MaxTime + JwtTTL + 1], FALSE)

Bearers == {NoBearer, ShortBearer, ForgedBearer} \cup {Jwt(tok, TRUE) : tok \in sessions}

\* promisify(jwt.verify)(token, config.JWT_SECRET) resolves, instead of throwing.
JwtVerify(b, time) == b.signed /\ time < b.exp

\* User.findById(id): the record with that _id, if the collection holds it.
FindById(us, id) == IF id \in 1..Len(us) /\ us[id].id = id THEN id ELSE 0

MsgInvalidToken == "Invalid token provided"
MsgUserGone == "The user belonging to this token does no longer exist."
\* jwt.verify threw; the error reaches the global error handler.
MsgJwtError == "AuthenticationError"
\* next() without an error: the downstream handler runs.
MsgNext == "next()"

\* What held of the bearer and of the store when the gate ran.
ProtectedPre(b) ==
    (IF b.form = "none" THEN {"nobearer"} ELSE {})
    \cup (IF b.form = "short" THEN {"short"} ELSE {})
    \cup (IF b.form = "jwt" /\ ~b.signed THEN {"badsig"} ELSE {})
    \cup (IF b.form = "jwt" /\ now >= b.exp THEN {"expired"} ELSE {})
    \cup (IF b.form = "jwt" /\ (\A i \in 1..Len(users) : users[i].id # b.sub)
          THEN {"gone"} ELSE {})

\* Mutation: the gate does not test what findById returned.
ProtectedNoUserCheck(s, b) ==
    /\ Free(s)
    /\ LET r == Request("protected", "done", Blank, Blank, Blank, b.sub, NullDoc,
                        ProtectedPre(b))
           id == FindById(users, b.sub)
       IN  IF b.form # "jwt"
           THEN Immediate(Response(r, 401, MsgInvalidToken, 0))
           ELSE IF ~JwtVerify(b, now)
           THEN Immediate(Response(r, 401, MsgJwtError, 0))
           ELSE Immediate(Response([r EXCEPT !.email = IF id = 0 THEN Blank
                                                       ELSE users[id].email],
                                   200, MsgNext, 0))
    /\ UNCHANGED <<users, now, nextTok, outbox, History, sessions>>

\* protected: the bearer token, jwt.verify, User.findById(decoded.id), and
\* req.user = currentUser; next(). In the response, token is decoded.id and
\* email is the email of the record put in req.user.
Protected(s, b) ==
    /\ Free(s)
    /\ LET r == Request("protected", "done", Blank, Blank, Blank, b.sub, NullDoc,
                        ProtectedPre(b))
           id == FindById(users, b.sub)
       IN  IF b.form # "jwt"
           THEN Immediate(Response(r, 401, MsgInvalidToken, 0))
           ELSE IF ~JwtVerify(b, now)
           THEN Immediate(Response(r, 401, MsgJwtError, 0))
           ELSE IF id = 0
           THEN Immediate(Response(r, 401, MsgUserGone, 0))
           ELSE Immediate(Response([r EXCEPT !.email = users[id].email],
                                   200, MsgNext, 0))
    /\ UNCHANGED <<users, now, nextTok, outbox, History, sessions>>

\* A record is deleted from outside the application; its _id is not reused.
DeleteUser(i) ==
    /\ i \in 1..Len(users)
    /\ users[i].id = i
    /\ users' = [users EXCEPT ![i] = NullDoc]
    /\ UNCHANGED <<reqs, resp, now, nextTok, started, outbox, History, sessions>>

\* -------------------------------------------------------- forgotPassword
\* forgotPassword, up to the first await: User.findOne({email}) and the 404.
ForgotFind(s, email) ==
    /\ Free(s)
    /\ LET id == FindByEmail(users, email)
           r == Request("forgot", "save", email, Blank, Blank, 0,
                        IF id = 0 THEN NullDoc ELSE users[id], {})
       IN  IF id = 0
           THEN Immediate(Response(r, 404, MsgNoSuchUser, 0))
           ELSE /\ reqs' = [reqs EXCEPT ![s] = r]
                /\ resp' = resp
    /\ UNCHANGED <<users, now, nextTok, outbox, History, sessions>>

\* Mutation: a pending reset token is kept; the new one is mailed but not stored.
ForgotSaveKeepsPending(s) ==
    /\ reqs[s].kind = "forgot"
    /\ reqs[s].pc = "save"
    /\ nextTok' = nextTok + 1
    /\ LET expires == <<now + ResetTTL>>
           doc == [reqs[s].doc EXCEPT !.passwordResetToken = Sha256(nextTok),
                                      !.passwordResetExpires = expires]
       IN  /\ users' = IF users[doc.id].passwordResetToken # Absent THEN users
                       ELSE SaveDoc(users, doc, {"passwordResetToken", "passwordResetExpires"})
           /\ reqs' = [reqs EXCEPT ![s] = [@ EXCEPT !.pc = "send", !.doc = doc,
                                                   !.token = nextTok, !.wrote = TRUE]]
           /\ issued' = issued \cup {<<doc.id, nextTok>>}
           /\ latest' = [latest EXCEPT ![doc.id] = [token |-> nextTok, expires |-> expires]]
    /\ UNCHANGED <<resp, now, started, outbox, usedVerify, usedReset, failedForgot, sessions>>

\* user.createPasswordResetToken(); await user.save({validateBeforeSave: false})
ForgotSave(s) ==
    /\ reqs[s].kind = "forgot"
    /\ reqs[s].pc = "save"
    /\ nextTok' = nextTok + 1
    /\ LET expires == <<now + ResetTTL>>
           doc == [reqs[s].doc EXCEPT !.passwordResetToken = Sha256(nextTok),
                                      !.passwordResetExpires = expires]
       IN  /\ users' = SaveDoc(users, doc, {"passwordResetToken", "passwordResetExpires"})
           /\ reqs' = [reqs EXCEPT ![s] = [@ EXCEPT !.pc = "send", !.doc = doc,
                                                   !.token = nextTok, !.wrote = TRUE]]
           /\ issued' = issued \cup {<<doc.id, nextTok>>}
           /\ latest' = [latest EXCEPT ![doc.id] = [token |-> nextTok, expires |-> expires]]
    /\ UNCHANGED <<resp, now, started, outbox, usedVerify, usedReset, failedForgot, sessions>>

\* try { await sendEmail(emailOptions); res.status(200)... } catch { ... }
ForgotSend(s, ok) ==
    /\ reqs[s].kind = "forgot"
    /\ reqs[s].pc = "send"
    /\ IF ok
       THEN /\ outbox' = outbox \cup {<<"reset", reqs[s].email, reqs[s].token>>}
            /\ Complete(s, Response(reqs[s], 200, MsgResetSent, 0))
       ELSE /\ outbox' = outbox
            /\ reqs' = [reqs EXCEPT ![s].pc = "rollback"]
            /\ resp' = resp
    /\ UNCHANGED <<users, now, nextTok, started, History, sessions>>

\* Mutation: the catch block answers 500 without clearing the reset fields.
ForgotRollbackNoSave(s) ==
    /\ reqs[s].kind = "forgot"
    /\ reqs[s].pc = "rollback"
    /\ Complete(s, Response(reqs[s], 500, MsgResetSendFailed, 0))
    /\ failedForgot' = failedForgot \cup {reqs[s].token}
    /\ UNCHANGED <<users, now, nextTok, started, outbox, usedVerify, usedReset, issued, latest, sessions>>

\* Mutation: the catch block clears the token and leaves the expiry.
ForgotRollbackTokenOnly(s) ==
    /\ reqs[s].kind = "forgot"
    /\ reqs[s].pc = "rollback"
    /\ LET doc == [reqs[s].doc EXCEPT !.passwordResetToken = Absent]
       IN  /\ users' = SaveDoc(users, doc, {"passwordResetToken"})
           /\ Complete(s, Response([reqs[s] EXCEPT !.doc = doc], 500, MsgResetSendFailed, 0))
    /\ failedForgot' = failedForgot \cup {reqs[s].token}
    /\ UNCHANGED <<now, nextTok, started, outbox, usedVerify, usedReset, issued, latest, sessions>>

\* The catch block: both reset fields set to undefined, saved, and the 500.
ForgotRollback(s) ==
    /\ reqs[s].kind = "forgot"
    /\ reqs[s].pc = "rollback"
    /\ LET doc == [reqs[s].doc EXCEPT !.passwordResetToken = Absent,
                                      !.passwordResetExpires = Absent]
       IN  /\ users' = SaveDoc(users, doc, {"passwordResetToken", "passwordResetExpires"})
           /\ Complete(s, Response([reqs[s] EXCEPT !.doc = doc], 500, MsgResetSendFailed, 0))
    /\ failedForgot' = failedForgot \cup {reqs[s].token}
    /\ UNCHANGED <<now, nextTok, started, outbox, usedVerify, usedReset, issued, latest, sessions>>

\* --------------------------------------------------------- resetPassword
\* What held of the store and of the history when resetPassword looked the
\* token up.
ResetPre(t) ==
    (IF t \in usedReset THEN {"used"} ELSE {})
    \cup (IF \E i \in 1..Len(users) :
                /\ users[i].passwordResetToken = Sha256(t)
                /\ users[i].passwordResetExpires # Absent
                /\ now > users[i].passwordResetExpires[1]
          THEN {"late"} ELSE {})
    \cup (IF \A i \in 1..Len(users) : users[i].passwordResetToken # Sha256(t)
          THEN {"nomatch"} ELSE {})
    \cup (IF t \in failedForgot THEN {"failed"} ELSE {})
    \cup (IF \E i \in 1..Len(users) : <<i, t>> \in issued /\ latest[i].token # t
          THEN {"superseded"} ELSE {})

\* resetPassword, up to the first await: the lookup by digest and expiry.
ResetFind(s, t, password, confirm) ==
    /\ Free(s)
    /\ LET id == FindByResetToken(users, t, now)
           r == Request("reset", "save", Blank, password, confirm, t,
                        IF id = 0 THEN NullDoc ELSE users[id], ResetPre(t))
       IN  IF id = 0
           THEN Immediate(Response(r, 400, MsgBadResetToken, 0))
           ELSE /\ reqs' = [reqs EXCEPT ![s] = r]
                /\ resp' = resp
    /\ UNCHANGED <<users, now, nextTok, outbox, History, sessions>>

\* Mutation: the save changes the password and leaves the reset fields set.
ResetSaveKeepsToken(s) ==
    /\ reqs[s].kind = "reset"
    /\ reqs[s].pc = "save"
    /\ LET r == [reqs[s] EXCEPT !.pre = @ \cup (IF reqs[s].token \in usedReset
                                                THEN {"second"} ELSE {})]
           doc == [r.doc EXCEPT !.password = HashPassword(r.password)]
       IN  IF ~Valid(r.password, r.confirm)
           THEN /\ Complete(s, Response(r, 400, MsgValidation, 0))
                /\ UNCHANGED <<users, usedReset>>
           ELSE /\ users' = SaveDoc(users, doc, {"password"})
                /\ usedReset' = usedReset \cup {r.token}
                /\ Complete(s, Response([r EXCEPT !.doc = doc, !.wrote = TRUE],
                                        200, MsgSession, doc.id))
    /\ UNCHANGED <<now, nextTok, started, outbox, usedVerify, failedForgot, issued, latest>>
    /\ sessions' = IF resp'.session # 0
                   THEN sessions \cup {SignToken(resp'.session, now)}
                   ELSE sessions

\* Mutation: the save clears the reset fields and leaves the password alone.
ResetSaveDropsPassword(s) ==
    /\ reqs[s].kind = "reset"
    /\ reqs[s].pc = "save"
    /\ LET r == [reqs[s] EXCEPT !.pre = @ \cup (IF reqs[s].token \in usedReset
                                                THEN {"second"} ELSE {})]
           doc == [r.doc EXCEPT !.passwordResetToken = Absent,
                                !.passwordResetExpires = Absent]
       IN  IF ~Valid(r.password, r.confirm)
           THEN /\ Complete(s, Response(r, 400, MsgValidation, 0))
                /\ UNCHANGED <<users, usedReset>>
           ELSE /\ users' = SaveDoc(users, doc, {"passwordResetToken",
                                                 "passwordResetExpires"})
                /\ usedReset' = usedReset \cup {r.token}
                /\ Complete(s, Response([r EXCEPT !.doc = doc, !.wrote = TRUE],
                                        200, MsgSession, doc.id))
    /\ UNCHANGED <<now, nextTok, started, outbox, usedVerify, failedForgot, issued, latest>>
    /\ sessions' = IF resp'.session # 0
                   THEN sessions \cup {SignToken(resp'.session, now)}
                   ELSE sessions

\* Mutation: the save skips validation, as with {validateBeforeSave: false}.
ResetSaveNoValidation(s) ==
    /\ reqs[s].kind = "reset"
    /\ reqs[s].pc = "save"
    /\ LET r == [reqs[s] EXCEPT !.pre = @ \cup (IF reqs[s].token \in usedReset
                                                THEN {"second"} ELSE {})]
           doc == [r.doc EXCEPT !.password = HashPassword(r.password),
                                !.passwordResetToken = Absent,
                                !.passwordResetExpires = Absent]
       IN  /\ users' = SaveDoc(users, doc, {"password", "passwordResetToken",
                                            "passwordResetExpires"})
           /\ usedReset' = usedReset \cup {r.token}
           /\ Complete(s, Response([r EXCEPT !.doc = doc, !.wrote = TRUE],
                                   200, MsgSession, doc.id))
    /\ UNCHANGED <<now, nextTok, started, outbox, usedVerify, failedForgot, issued, latest>>
    /\ sessions' = IF resp'.session # 0
                   THEN sessions \cup {SignToken(resp'.session, now)}
                   ELSE sessions

\* password, confirmPassword set, both reset fields set to undefined,
\* `await user.save()` with validation, then createSendToken.
ResetSave(s) ==
    /\ reqs[s].kind = "reset"
    /\ reqs[s].pc = "save"
    /\ LET r == [reqs[s] EXCEPT !.pre = @ \cup (IF reqs[s].token \in usedReset
                                                THEN {"second"} ELSE {})]
           doc == [r.doc EXCEPT !.password = HashPassword(r.password),
                                !.passwordResetToken = Absent,
                                !.passwordResetExpires = Absent]
       IN  IF ~Valid(r.password, r.confirm)
           THEN /\ Complete(s, Response(r, 400, MsgValidation, 0))
                /\ UNCHANGED <<users, usedReset>>
           ELSE /\ users' = SaveDoc(users, doc, {"password", "passwordResetToken",
                                                 "passwordResetExpires"})
                /\ usedReset' = usedReset \cup {r.token}
                /\ Complete(s, Response([r EXCEPT !.doc = doc, !.wrote = TRUE],
                                        200, MsgSession, doc.id))
    /\ UNCHANGED <<now, nextTok, started, outbox, usedVerify, failedForgot, issued, latest>>
    /\ sessions' = IF resp'.session # 0
                   THEN sessions \cup {SignToken(resp'.session, now)}
                   ELSE sessions

\* ----------------------------------------------------------------- clock
Tick ==
    /\ now < MaxTime
    /\ now' = now + 1
    /\ UNCHANGED <<users, reqs, resp, nextTok, started, outbox, History, sessions>>

Init ==
    /\ users = <<>>
    /\ reqs = [s \in Slots |-> Idle]
    /\ resp = NoResp
    /\ now = 0
    /\ nextTok = 1
    /\ started = 0
    /\ outbox = {}
    /\ usedVerify = {}
    /\ usedReset = {}
    /\ failedForgot = {}
    /\ issued = {}
    /\ latest = <<>>
    /\ sessions = {}

Next ==
    \/ \E s \in Slots, e \in Emails, p \in Passwords, c \in Passwords : SignupFind(s, e, p, c)
    \/ \E s \in Slots : SignupSave(s)
    \/ \E s \in Slots, ok \in BOOLEAN : SignupSend(s, ok)
    \/ \E s \in Slots, t \in Presentable : VerifyFind(s, t)
    \/ \E s \in Slots : VerifySave(s)
    \/ \E s \in Slots, e \in Emails \cup {Blank}, p \in Passwords \cup {Blank} : Login(s, e, p)
    \/ \E s \in Slots : Logout(s)
    \/ \E s \in Slots, e \in Emails : ForgotFind(s, e)
    \/ \E s \in Slots : ForgotSave(s)
    \/ \E s \in Slots, ok \in BOOLEAN : ForgotSend(s, ok)
    \/ \E s \in Slots : ForgotRollback(s)
    \/ \E s \in Slots, t \in ResetPresentable, p \in Passwords, c \in Passwords : ResetFind(s, t, p, c)
    \/ \E s \in Slots : ResetSave(s)
    \/ Tick

Spec == Init /\ [][Next]_vars

\* The account flows alone: signup, verifyEmail, login, logout.
NextAccount ==
    \/ \E s \in Slots, e \in Emails, p \in Passwords, c \in Passwords : SignupFind(s, e, p, c)
    \/ \E s \in Slots : SignupSave(s)
    \/ \E s \in Slots, ok \in BOOLEAN : SignupSend(s, ok)
    \/ \E s \in Slots, t \in Presentable : VerifyFind(s, t)
    \/ \E s \in Slots : VerifySave(s)
    \/ \E s \in Slots, e \in Emails \cup {Blank}, p \in Passwords \cup {Blank} : Login(s, e, p)
    \/ \E s \in Slots : Logout(s)

SpecAccount == Init /\ [][NextAccount]_vars

\* The reset flows, from the store that signup("a@x.com", "Pw123456") and the
\* verifyEmail of its token leave; b@x.com has no account.
InitReset ==
    /\ users = <<[NewUser(<<>>, "a@x.com", "Pw123456", 1) EXCEPT !.isVerified = TRUE]>>
    /\ reqs = [s \in Slots |-> Idle]
    /\ resp = [Response(Request("verify", "save", Blank, Blank, Blank, 1, NullDoc, {}),
                        200, MsgVerified, 0) EXCEPT !.wrote = TRUE]
    /\ now = 0
    /\ nextTok = 2
    /\ started = 0
    /\ outbox = {<<"verify", "a@x.com", 1>>}
    /\ usedVerify = {1}
    /\ usedReset = {}
    /\ failedForgot = {}
    /\ issued = {}
    /\ latest = <<[token |-> 0, expires |-> Absent]>>
    /\ sessions = {}

NextReset ==
    \/ \E s \in Slots, e \in Emails : ForgotFind(s, e)
    \/ \E s \in Slots : ForgotSave(s)
    \/ \E s \in Slots, ok \in BOOLEAN : ForgotSend(s, ok)
    \/ \E s \in Slots : ForgotRollback(s)
    \/ \E s \in Slots, t \in ResetPresentable, p \in Passwords, c \in Passwords : ResetFind(s, t, p, c)
    \/ \E s \in Slots : ResetSave(s)
    \/ Tick

SpecReset == InitReset /\ [][NextReset]_vars

\* The gate, from the store and the session token that signup, verifyEmail
\* and login of a@x.com leave.
InitGate ==
    /\ users = <<[NewUser(<<>>, "a@x.com", "Pw123456", 1) EXCEPT !.isVerified = TRUE]>>
    /\ reqs = [s \in Slots |-> Idle]
    /\ resp = Response(Request("login", "done", "a@x.com", "Pw123456", Blank, 0,
                               NullDoc, {}), 200, MsgSession, 1)
    /\ now = 0
    /\ nextTok = 2
    /\ started = 0
    /\ outbox = {<<"verify", "a@x.com", 1>>}
    /\ usedVerify = {1}
    /\ usedReset = {}
    /\ failedForgot = {}
    /\ issued = {}
    /\ latest = <<[token |-> 0, expires |-> Absent]>>
    /\ sessions = {SignToken(1, 0)}

NextGate ==
    \/ \E s \in Slots, e \in Emails \cup {Blank}, p \in Passwords \cup {Blank} : Login(s, e, p)
    \/ \E s \in Slots : Logout(s)
    \/ \E s \in Slots, b \in Bearers : Protected(s, b)
    \/ \E i \in 1..Len(users) : DeleteUser(i)
    \/ Tick

SpecGate == InitGate /\ [][NextGate]_vars

\* The reset flow whose mail is delivered, followed by login, from the store
\* of InitReset.
NextResetLogin ==
    \/ \E s \in Slots, e \in Emails : ForgotFind(s, e)
    \/ \E s \in Slots : ForgotSave(s)
    \/ \E s \in Slots : ForgotSend(s, TRUE)
    \/ \E s \in Slots, t \in ResetPresentable, p \in Passwords, c \in Passwords : ResetFind(s, t, p, c)
    \/ \E s \in Slots : ResetSave(s)
    \/ \E s \in Slots, p \in Passwords : Login(s, "a@x.com", p)
    \/ Tick

SpecResetLogin == InitReset /\ [][NextResetLogin]_vars

\* Verification, login and the gate, from the store that
\* signup("a@x.com", "Pw123456") leaves: the record is unverified and raw
\* token 1 has been mailed.
InitSigned ==
    /\ users = <<NewUser(<<>>, "a@x.com", "Pw123456", 1)>>
    /\ reqs = [s \in Slots |-> Idle]
    /\ resp = [Response(Request("signup", "send", "a@x.com", "Pw123456", "Pw123456",
                                1, NullDoc, {}), 201, MsgVerificationSent, 0)
               EXCEPT !.wrote = TRUE]
    /\ now = 0
    /\ nextTok = 2
    /\ started = 0
    /\ outbox = {<<"verify", "a@x.com", 1>>}
    /\ usedVerify = {}
    /\ usedReset = {}
    /\ failedForgot = {}
    /\ issued = {}
    /\ latest = <<[token |-> 0, expires |-> Absent]>>
    /\ sessions = {}

NextOnboard ==
    \/ \E s \in Slots, t \in Presentable : VerifyFind(s, t)
    \/ \E s \in Slots : VerifySave(s)
    \/ \E s \in Slots, e \in Emails, p \in Passwords : Login(s, e, p)
    \/ \E s \in Slots, b \in Bearers : Protected(s, b)
    \/ Tick

SpecOnboard == InitSigned /\ [][NextOnboard]_vars

\* verifyEmail against the reset flows, from the store signup leaves; the
\* clock stands still, so no reset token expires.
NextVerifyRace ==
    \/ \E s \in Slots, t \in Presentable : VerifyFind(s, t)
    \/ \E s \in Slots : VerifySave(s)
    \/ \E s \in Slots : ForgotFind(s, "a@x.com")
    \/ \E s \in Slots : ForgotSave(s)
    \/ \E s \in Slots, ok \in BOOLEAN : ForgotSend(s, ok)
    \/ \E s \in Slots : ForgotRollback(s)
    \/ \E s \in Slots, t \in ResetPresentable, p \in Passwords : ResetFind(s, t, p, p)
    \/ \E s \in Slots : ResetSave(s)

SpecVerifyRace == InitSigned /\ [][NextVerifyRace]_vars

\* All six handlers, from the store signup leaves: a second signup for
\* b@x.com, and verifyEmail, login, logout, forgotPassword and resetPassword
\* for a@x.com; the clock stands still.
NextLife ==
    \/ \E s \in Slots, p \in Passwords : SignupFind(s, "b@x.com", p, p)
    \/ \E s \in Slots : SignupSave(s)
    \/ \E s \in Slots, ok \in BOOLEAN : SignupSend(s, ok)
    \/ \E s \in Slots, t \in Presentable : VerifyFind(s, t)
    \/ \E s \in Slots : VerifySave(s)
    \/ \E s \in Slots, p \in Passwords : Login(s, "a@x.com", p)
    \/ \E s \in Slots : Logout(s)
    \/ \E s \in Slots : ForgotFind(s, "a@x.com")
    \/ \E s \in Slots : ForgotSave(s)
    \/ \E s \in Slots, ok \in BOOLEAN : ForgotSend(s, ok)
    \/ \E s \in Slots : ForgotRollback(s)
    \/ \E s \in Slots, t \in ResetPresentable, p \in Passwords : ResetFind(s, t, p, p)
    \/ \E s \in Slots : ResetSave(s)

SpecLife == InitSigned /\ [][NextLife]_vars

\* ================================================================ claims

\* C1: once verifyEmail has succeeded with raw token t, every later
\* verifyEmail that presents t is refused with status 400.
C1_VerifyTokenSingleUse ==
    (resp.kind = "verify" /\ "used" \in resp.pre) => resp.status = 400

\* C2: the save of a successful resetPassword sets the new password hash and
\* clears passwordResetToken and passwordResetExpires together; a
\* resetPassword that presents a raw token after a reset has succeeded with
\* it is refused with the invalid-token 400 and saves nothing.
C2_ResetTokenSingleUse ==
    /\ []((resp.kind = "reset" /\ "used" \in resp.pre)
            => (resp.status = 400 /\ resp.msg = MsgBadResetToken /\ ~resp.wrote))
    /\ [][\A s \in Slots :
            (reqs[s].kind = "reset" /\ reqs[s].pc = "save" /\ reqs'[s] = Idle
               /\ resp'.status = 200)
            => LET u == users'[reqs[s].doc.id]
               IN  /\ u.password = HashPassword(reqs[s].password)
                   /\ u.passwordResetToken = Absent
                   /\ u.passwordResetExpires = Absent]_vars

C2_Witness ==
    resp.kind = "reset" /\ "used" \in resp.pre /\ resp.status = 400

\* C3: a resetPassword made when the clock is past the passwordResetExpires
\* of the record holding the token's digest is refused with the invalid-token
\* 400 and saves nothing, used or not; a token that matches no record gets
\* the same status and message.
C3_ExpiredResetRejected ==
    (resp.kind = "reset" /\ resp.pre \cap {"late", "nomatch"} # {})
        => (resp.status = 400 /\ resp.msg = MsgBadResetToken /\ ~resp.wrote)

C3_Witness ==
    /\ resp.kind = "reset"
    /\ "late" \in resp.pre
    /\ "used" \notin resp.pre
    /\ resp.status = 400
    /\ \E i \in 1..Len(users) : users[i].passwordResetToken = Sha256(resp.token)

\* C4: when a forgotPassword whose mail was rejected ends with the 500, the
\* record's passwordResetToken and passwordResetExpires are cleared; from then
\* on no record holds the digest of that request's raw token, and a
\* resetPassword that presents it is refused and saves nothing.
C4_FailedSendTokenCleared ==
    /\ [](/\ \A t \in failedForgot : \A i \in 1..Len(users) :
                users[i].passwordResetToken # Sha256(t)
          /\ (resp.kind = "reset" /\ "failed" \in resp.pre)
                => (resp.status = 400 /\ ~resp.wrote))
    /\ [][\A s \in Slots :
            (reqs[s].kind = "forgot" /\ reqs[s].pc = "rollback" /\ reqs'[s] = Idle)
            => /\ resp'.status = 500
               /\ resp'.token \in failedForgot'
               /\ users'[reqs[s].doc.id].passwordResetToken = Absent
               /\ users'[reqs[s].doc.id].passwordResetExpires = Absent]_vars

C4_Witness ==
    resp.kind = "reset" /\ "failed" \in resp.pre /\ resp.status = 400

\* C5: a signup whose verification mail was rejected leaves no record for
\* its email in the collection.
C5_FailedSignupLeavesNoRecord ==
    (resp.kind = "signup" /\ resp.msg = MsgDispatch)
        => FindByEmail(users, resp.email) = 0

\* C6: for each user, once a later forgotPassword has persisted its token no
\* earlier reset token of that user passes the resetPassword lookup, at any
\* time; the record holds the fingerprint persisted last together with the
\* expiry persisted with it.
C6_OneRedeemableResetToken ==
    /\ \A p \in issued :
          /\ latest[p[1]].token # p[2]
                => \A time \in 0..MaxTime : FindByResetToken(users, p[2], time) = 0
          /\ (latest[p[1]].token = p[2]
                /\ users[p[1]].passwordResetToken = Sha256(p[2]))
                => users[p[1]].passwordResetExpires = latest[p[1]].expires
    /\ (resp.kind = "reset" /\ "superseded" \in resp.pre)
          => (resp.status = 400 /\ ~resp.wrote)

C6_Witness ==
    /\ resp.kind = "reset"
    /\ "superseded" \in resp.pre
    /\ resp.status = 400
    /\ \E i \in 1..Len(users) :
          /\ users[i].passwordResetToken = Sha256(latest[i].token)
          /\ <<i, resp.token>> \in issued

\* C7: of the resetPassword requests that present one raw token, at most
\* one succeeds.
C7_ConcurrentResetAtMostOne ==
    (resp.kind = "reset" /\ resp.status = 200) => "second" \notin resp.pre

C9_SignupFreshAndDuplicate ==
    /\ [](/\ \A s \in Slots : reqs[s].kind = "signup" => "exists" \notin reqs[s].pre
          /\ (resp.kind = "signup" /\ "exists" \in resp.pre)
                => /\ resp.status = 400
                   /\ resp.msg = MsgUserExists
                   /\ ~resp.wrote
                   /\ resp.token = 0
                   /\ \A m \in outbox : m[3] # resp.token)
    /\ [][/\ Len(users') > Len(users)
                => LET u == users'[Len(users')]
                   IN  /\ Len(users') = Len(users) + 1
                       /\ u.isVerified = FALSE
                       /\ u.emailVerificationToken # Absent
                       /\ FindByEmail(users, u.email) = 0
           /\ \A s \in Slots :
                (/\ reqs[s].kind = "signup" /\ reqs[s].pc = "save"
                 /\ reqs'[s] # reqs[s]
                 /\ Valid(reqs[s].password, reqs[s].confirm)
                 /\ FindByEmail(users, reqs[s].email) = 0)
                => /\ Len(users') = Len(users) + 1
                   /\ users'[Len(users')].email = reqs[s].email
                   /\ users'[Len(users')].password = HashPassword(reqs[s].password)]_vars

C9_Witness ==
    /\ resp.kind = "signup"
    /\ "exists" \in resp.pre
    /\ resp.status = 400
    /\ \E i \in 1..Len(users) : users[i].email = resp.email

\* C10: login answers an email without a record and a wrong password for a
\* registered email with the same status and message, verified or not.
C10_LoginIndistinguishable ==
    (resp.kind = "login" /\ resp.pre \cap {"nouser", "wrongpw"} # {})
        => (resp.status = 401 /\ resp.msg = MsgBadLogin /\ resp.session = 0)

C10_Witness ==
    /\ resp.kind = "login"
    /\ {"wrongpw", "unverified"} \subseteq resp.pre
    /\ resp.status = 401
    /\ resp.msg = MsgBadLogin

\* C11: the gate calls next() exactly when the request carries a bearer
\* token of at least 20 characters whose signature verifies, that has not
\* expired and whose subject is the _id of a record the collection holds, and
\* req.user is then that record; every other request, one whose user was
\* deleted after the token was signed included, is answered 401 and next() is
\* not called.
C11_GatePassesOnlyValidSession ==
    resp.kind = "protected"
        => /\ resp.msg = MsgNext <=> resp.pre = {}
           /\ resp.msg = MsgNext
                => /\ resp.status = 200
                   /\ resp.token \in 1..Len(users)
                   /\ resp.email # Blank
                   /\ users[resp.token].id = resp.token
                        => users[resp.token].email = resp.email
           /\ resp.msg # MsgNext => resp.status = 401

\* The gate refused a signed, unexpired token whose user had been deleted.
C11_Witness ==
    /\ resp.kind = "protected"
    /\ resp.pre = {"gone"}
    /\ resp.status = 401
    /\ resp.msg = MsgUserGone
    /\ SignToken(resp.token, 0) \in sessions

\* C12: under every step of signup, verifyEmail, login, forgotPassword,
\* resetPassword and logout a record's isVerified never goes from true to
\* false, and it goes from false to true only in the save of a verifyEmail
\* that answers 200 for that record.
C12_VerifiedMonotonic ==
    [][/\ Len(users') >= Len(users)
       /\ \A i \in 1..Len(users) :
            /\ users[i].isVerified => users'[i].isVerified
            /\ (~users[i].isVerified /\ users'[i].isVerified)
                 => \E s \in Slots :
                       /\ reqs[s].kind = "verify"
                       /\ reqs[s].pc = "save"
                       /\ reqs[s].doc.id = i
                       /\ reqs'[s] = Idle
                       /\ resp'.kind = "verify"
                       /\ resp'.status = 200]_vars

\* A forgotPassword that read the record before it was verified has saved
\* after the verification, and the record is still verified.
C12_Witness ==
    \E s \in Slots :
        /\ reqs[s].kind = "forgot"
        /\ reqs[s].pc = "send"
        /\ ~reqs[s].doc.isVerified
        /\ users[reqs[s].doc.id].isVerified
        /\ users[reqs[s].doc.id].passwordResetToken = Sha256(reqs[s].token)

\* C13: the save of a successful resetPassword for a verified user, with a
\* new password other than the stored one, leaves a hash the new password
\* matches and the old one does not; while that reset is the last response, a
\* login for the user with the password the stored hash matches is answered
\* 200 with a session token for the user, and a login with any other
\* password is answered 401 'Invalid email or password.' without one.
C13_ResetThenLogin ==
    /\ [][\A s \in Slots : \A old \in Passwords :
            (/\ reqs[s].kind = "reset" /\ reqs[s].pc = "save" /\ reqs'[s] = Idle
             /\ resp'.status = 200
             /\ users[reqs[s].doc.id].isVerified
             /\ users[reqs[s].doc.id].password = HashPassword(old)
             /\ old # reqs[s].password)
            => /\ MatchPassword(reqs[s].password, users'[reqs[s].doc.id].password)
               /\ ~MatchPassword(old, users'[reqs[s].doc.id].password)
               /\ resp'.session = reqs[s].doc.id]_vars
    /\ [][\A s \in Slots, e \in Emails, p \in Passwords :
            (/\ resp.kind = "reset" /\ resp.status = 200
             /\ users[resp.session].isVerified
             /\ users[resp.session].email = e
             /\ Login(s, e, p))
            => IF MatchPassword(p, users[resp.session].password)
               THEN /\ resp'.status = 200
                    /\ resp'.session = resp.session
                    /\ SignToken(resp.session, now) \in sessions'
               ELSE /\ resp'.status = 401
                    /\ resp'.msg = MsgBadLogin
                    /\ resp'.session = 0
                    /\ sessions' = sessions]_vars

\* After a reset to "NewPw1", a login with the old password was refused.
C13_Witness ==
    /\ resp.kind = "login"
    /\ resp.email = "a@x.com"
    /\ resp.status = 401
    /\ resp.pre = {"wrongpw"}
    /\ usedReset # {}
    /\ users[1].password = HashPassword("NewPw1")

\* C14: after signup the record is unverified until a verifyEmail with its
\* token has succeeded; a login with the right password is answered 401
\* 'Your email is not verified...' without a session token while the record
\* is unverified, and 200 with a session token for the record once it is
\* verified; the gate passes every unexpired session token and puts the
\* record the token was signed for in req.user.
C14_SignupVerifyLoginGate ==
    /\ [](/\ \A i \in 1..Len(users) :
                users[i].isVerified
                    <=> \E t \in usedVerify : users[i].emailVerificationToken = Sha256(t)
          /\ (resp.kind = "login" /\ resp.pre = {"unverified"})
                => /\ resp.status = 401
                   /\ resp.msg = MsgNotVerified
                   /\ resp.session = 0
          /\ (resp.kind = "login" /\ resp.pre = {})
                => /\ resp.status = 200
                   /\ resp.session = FindByEmail(users, resp.email)
                   /\ \E tok \in sessions : tok.sub = resp.session
          /\ \A tok \in sessions : users[tok.sub].isVerified)
    /\ [][\A s \in Slots : \A tok \in sessions :
            (Protected(s, Jwt(tok, TRUE)) /\ now < tok.exp)
            => /\ resp'.msg = MsgNext
               /\ resp'.token = tok.sub
               /\ resp'.email = users[tok.sub].email]_vars

\* verifyEmail, then login, then the gate: the request reached the downstream
\* handler as a@x.com.
C14_Witness ==
    /\ resp.kind = "protected"
    /\ resp.msg = MsgNext
    /\ resp.email = "a@x.com"
    /\ resp.token = 1
    /\ usedVerify = {1}
    /\ users[1].isVerified

\* C15: a resetPassword whose token passed the lookup and whose password and
\* confirmPassword fail validation ends with the validation error, writes
\* nothing to the collection and gets no session token; the raw token passes
\* the lookup afterwards at exactly the times it did before.
C15_InvalidResetPersistsNothing ==
    [][\A s \in Slots :
         (/\ reqs[s].kind = "reset" /\ reqs[s].pc = "save"
          /\ reqs'[s] # reqs[s]
          /\ ~Valid(reqs[s].password, reqs[s].confirm))
         => /\ users' = users
            /\ resp'.kind = "reset"
            /\ resp'.status = 400
            /\ resp'.msg = MsgValidation
            /\ resp'.session = 0
            /\ ~resp'.wrote
            /\ sessions' = sessions
            /\ usedReset' = usedReset
            /\ \A time \in 0..MaxTime :
                 FindByResetToken(users', reqs[s].token, time)
                    = FindByResetToken(users, reqs[s].token, time)]_vars

\* A reset was refused for its confirmPassword and its token still passes
\* the lookup.
C15_Witness ==
    /\ resp.kind = "reset"
    /\ resp.msg = MsgValidation
    /\ resp.token \notin usedReset
    /\ FindByResetToken(users, resp.token, now) # 0

\* C16: logout changes neither the collection nor the session tokens in
\* force: what the gate holds against each bearer is the same after the step
\* as before it, and a protected request that follows a logout with a signed,
\* unexpired token of an existing user reaches next().
C16_LogoutKeepsSessions ==
    /\ [][\A s \in Slots :
            Logout(s)
            => /\ users' = users
               /\ sessions' = sessions
               /\ resp'.status = 200
               /\ \A b \in Bearers : ProtectedPre(b)' = ProtectedPre(b)]_vars
    /\ [][\A s \in Slots : \A tok \in sessions :
            (/\ resp.kind = "logout"
             /\ now < tok.exp
             /\ FindById(users, tok.sub) # 0
             /\ Protected(s, Jwt(tok, TRUE)))
            => /\ resp'.msg = MsgNext
               /\ resp'.email = users[tok.sub].email]_vars

\* A logout has been answered and the gate has nothing against a token
\* signed before it.
C16_Witness ==
    /\ resp.kind = "logout"
    /\ resp.status = 200
    /\ \E tok \in sessions : ProtectedPre(Jwt(tok, TRUE)) = {}

\* C17: the save of a verifyEmail sets isVerified on the record it loaded
\* and changes no other field of it and no other record, whatever a
\* forgotPassword or resetPassword has written to the record since the load.
C17_VerifyTouchesOnlyIsVerified ==
    [][\A s \in Slots :
         (reqs[s].kind = "verify" /\ reqs[s].pc = "save" /\ reqs'[s] = Idle)
         => /\ Len(users') = Len(users)
            /\ users'[reqs[s].doc.id] = [users[reqs[s].doc.id] EXCEPT !.isVerified = TRUE]
            /\ \A j \in 1..Len(users) : j # reqs[s].doc.id => users'[j] = users[j]
            /\ resp'.kind = "verify"
            /\ resp'.status = 200]_vars

\* A verifyEmail saved after a forgotPassword had written the reset fields
\* of the record it had loaded, and the fields are still there.
C17_Witness ==
    /\ resp.kind = "verify"
    /\ resp.status = 200
    /\ "raced" \in resp.pre
    /\ users[1].isVerified
    /\ users[1].passwordResetToken # Absent
    /\ users[1].passwordResetExpires # Absent

\* C18: every session token createSendToken has signed, for login or for
\* resetPassword, names a record whose isVerified is true.
C18_NoSessionForUnverified ==
    \A tok \in sessions :
        /\ tok.sub \in 1..Len(users)
        /\ users[tok.sub].isVerified

\* C19: a reset token whose mail was delivered passes the resetPassword
\* lookup until it is used, expired or superseded: while no resetPassword has
\* succeeded, the token persisted last for a user, once mailed, is found at
\* every time before its expiry, whatever rollback a concurrent
\* forgotPassword with a rejected mail has run.
C19_DeliveredTokenStaysRedeemable ==
    \A m \in outbox :
        m[1] = "reset"
            => LET id == FindByEmail(users, m[2])
               IN  (/\ usedReset = {}
                    /\ latest[id].token = m[3]
                    /\ now < latest[id].expires[1])
                   => FindByResetToken(users, m[3], now) = id

\* C20: in every state of the collection, under every interleaving of
\* forgotPassword, its rollback and resetPassword, each record has
\* passwordResetToken and passwordResetExpires both set or both absent.
C20_ResetFieldsTogether ==
    \A i \in 1..Len(users) :
        (users[i].passwordResetToken = Absent)
            <=> (users[i].passwordResetExpires = Absent)

\* A rollback and a successful resetPassword have both run, and the record
\* holds the token and the expiry of another forgotPassword.
C20_Witness ==
    /\ failedForgot # {}
    /\ usedReset # {}
    /\ users[1].passwordResetToken # Absent
    /\ users[1].passwordResetExpires # Absent

====
